---- MODULE Spec2Model ----
(***************************************************************************)
(* Model of MinerviniScreenerEnhanced (src/streamlit_app.py).              *)
(*                                                                         *)
(* One screener object is modelled: its fields, the answers of the history *)
(* provider (yfinance) as inputs of the actions, and the value returned by *)
(* the last method call (Spec).  RerunSpec calls analyze a second time on  *)
(* a used object; BatchSpec is the for loop of the batch screener in       *)
(* main(), which builds one screener per symbol of the watchlist.          *)
(*                                                                         *)
(* Numbers.  Prices are integers counted in cents and every quoted price   *)
(* is a whole number of dollars, so the factors 0.99, 0.93, 1.20 and 0.01  *)
(* of the code give integers again.  Quotients the code keeps as floats    *)
(* (moving averages, returns, ratios) are kept as exact fractions          *)
(* [nan, num, den] and compared by cross-multiplication; a NaN compares    *)
(* false with everything, as in numpy.  Floating-point rounding is not     *)
(* modelled.                                                               *)
(***************************************************************************)
EXTENDS Integers, Sequences, FiniteSets, TLC

VARIABLES
    symbol,           \* self.symbol
    account_balance,  \* self.account_balance, in cents
    frame,            \* what self.hist is: "none" (None), "raw" (OHLCV columns), "sma" (with SMA_* columns)
    hist,             \* the rows of self.hist, oldest first (<<>> while self.hist is None)
    current_price,    \* self.current_price, NoPrice while it is None
    spy_calls,        \* the benchmark provider's answers during the last call, in order
    ret,              \* the value returned (or the exception raised) by the last call
    symbols,          \* main(), batch screener: the parsed watchlist
    loop_i,           \* main(), batch screener: how many symbols the for loop has done
    results,          \* main(), batch screener: the records collected so far
    calls             \* the provider calls of the batch run: history count, benchmark answers

vars == <<symbol, account_balance, frame, hist, current_price, spy_calls, ret,
          symbols, loop_i, results, calls>>

\* the variables of the batch screener, untouched by calls on a single object
batchVars == <<symbols, loop_i, results, calls>>

(***************************************************************************)
(* Bounds of the explored inputs                                           *)
(***************************************************************************)
MaxLen == 260          \* longest history handed out by the provider
MaxBalanceK == 2       \* account balances are 1000 .. MaxBalanceK * 1000 dollars
MaxQuote == 4          \* standalone sizing calls use prices of 1 .. MaxQuote dollars

NoPrice == 0 - 1

Dollars(d) == d * 100

Max2(a, b) == IF a >= b THEN a ELSE b
Min2(a, b) == IF a <= b THEN a ELSE b

(***************************************************************************)
(* Floats as exact fractions                                               *)
(***************************************************************************)
NaN == [nan |-> TRUE, num |-> 0, den |-> 1]
Val(n, d) == [nan |-> FALSE, num |-> n, den |-> d]
Gt(a, b) == ~a.nan /\ ~b.nan /\ a.num * b.den > b.num * a.den
Ge(a, b) == ~a.nan /\ ~b.nan /\ a.num * b.den >= b.num * a.den
Sub(a, b) == IF a.nan \/ b.nan THEN NaN ELSE Val(a.num * b.den - b.num * a.den, a.den * b.den)

(***************************************************************************)
(* Series helpers (pandas .iloc, .tail, .max, .min, .idxmax, .rolling)     *)
(***************************************************************************)
\* position (1-based) of .iloc[-k] in a series of n rows
Iloc(n, k) == n - k + 1
\* first position of the slice .iloc[-k:] / .tail(k)
TailFrom(n, k) == Max2(1, n - k + 1)

SetMax(S) == CHOOSE m \in S : \A x \in S : x <= m
SetMin(S) == CHOOSE m \in S : \A x \in S : m <= x

MaxHigh(h, a, b) == SetMax({h[i].High : i \in a..b})
MinLow(h, a, b) == SetMin({h[i].Low : i \in a..b})
\* .idxmax() / .idxmin(): the first row holding the extreme value
IdxMaxHigh(h, a, b) ==
    LET m == MaxHigh(h, a, b) IN SetMin({i \in a..b : h[i].High = m})
IdxMinLow(h, a, b) ==
    LET m == MinLow(h, a, b) IN SetMin({i \in a..b : h[i].Low = m})

\* sums over rows a..b, halving the range
RECURSIVE SumClose(_, _, _)
SumClose(h, a, b) ==
    IF a > b THEN 0
    ELSE IF a = b THEN h[a].Close
    ELSE LET mid == (a + b) \div 2 IN SumClose(h, a, mid) + SumClose(h, mid + 1, b)
RECURSIVE SumVolume(_, _, _)
SumVolume(h, a, b) ==
    IF a > b THEN 0
    ELSE IF a = b THEN h[a].Volume
    ELSE LET mid == (a + b) \div 2 IN SumVolume(h, a, mid) + SumVolume(h, mid + 1, b)
RECURSIVE SumRange(_, _, _)
SumRange(h, a, b) ==
    IF a > b THEN 0
    ELSE IF a = b THEN h[a].High - h[a].Low
    ELSE LET mid == (a + b) \div 2 IN SumRange(h, a, mid) + SumRange(h, mid + 1, b)

\* Close.rolling(window=w).mean() at row i: NaN until w rows exist
SMA(h, w, i) == IF i < w THEN NaN ELSE Val(SumClose(h, i - w + 1, i), w)
CloseAt(h, i) == Val(h[i].Close, 1)

(***************************************************************************)
(* The history provider's answers                                          *)
(***************************************************************************)
Lens == {1, 10, 22, 60, 160, MaxLen}
Shapes == {"up", "steep", "vcp", "down", "flat", "cup", "coil"}

\* closing price in dollars of row i of an n-row series; j counts rows from the end
CloseD(shape, n, i) ==
    LET j == n - i IN
    CASE shape = "up"    -> 40 + (i \div 4)
      [] shape = "steep" -> 40 + (i \div 2)
      [] shape = "vcp"   -> 40 + (i \div 2)
      [] shape = "down"  -> 180 - (i \div 2)
      [] shape = "flat"  -> 50
      [] shape = "coil"  -> 100
      [] shape = "cup"   -> IF j >= 100 THEN 100 - ((j - 100) \div 4)
                            ELSE IF j >= 60 THEN 80
                            ELSE IF j >= 15 THEN 98
                            ELSE IF j >= 1 THEN 94
                            ELSE 97

\* half of the day's range in dollars
SpreadD(shape, n, i) ==
    LET j == n - i IN
    CASE shape \in {"vcp", "coil"} -> IF j < 10 THEN 1 ELSE IF j < 30 THEN 2 ELSE 3
      [] shape = "cup" -> IF j < 15 /\ j >= 1 THEN 3 ELSE 1
      [] OTHER -> 1

VolumeOf(shape, n, i) ==
    IF i = n /\ shape \in {"steep", "vcp"} THEN 25
    ELSE IF i = n /\ shape = "up" THEN 16
    ELSE IF i = n /\ shape = "down" THEN 8
    ELSE 10

Series(shape, n) ==
    [i \in 1..n |->
        [High   |-> Dollars(CloseD(shape, n, i) + SpreadD(shape, n, i)),
         Low    |-> Dollars(CloseD(shape, n, i) - SpreadD(shape, n, i)),
         Close  |-> Dollars(CloseD(shape, n, i)),
         Volume |-> VolumeOf(shape, n, i)]]

\* what stock.history(period) may do: raise, return an empty frame, return rows
HistoryAnswers ==
    {[ok |-> FALSE, rows |-> <<>>], [ok |-> TRUE, rows |-> <<>>]}
    \cup {[ok |-> TRUE, rows |-> Series(s, n)] : s \in Shapes, n \in Lens}

SpySeries(kind, n) ==
    [i \in 1..n |-> CASE kind = "flat" -> 20
                      [] kind = "bull" -> 20 + (i \div 4)
                      [] kind = "bear" -> 60 - (i \div 4)]

\* what yf.Ticker('SPY').history(period='1y') may do; only Close is read
SpyAnswers ==
    {[ok |-> FALSE, close |-> <<>>], [ok |-> TRUE, close |-> <<>>]}
    \cup {[ok |-> TRUE, close |-> SpySeries(k, 130)] : k \in {"flat", "bull", "bear"}}
    \cup {[ok |-> TRUE, close |-> SpySeries("bull", 10)]}


(***************************************************************************)
(* MinerviniScreenerEnhanced: the methods                                  *)
(***************************************************************************)
Symbols == {"nvda"}
\* str.upper() on the ticker symbols the model enters
Upper(s) ==
    CASE s = "nvda" -> "NVDA" [] s = "aapl" -> "AAPL" [] s = "msft" -> "MSFT" [] OTHER -> s

\* mutant: current_price is assigned only while it is still None
fetch_dataOnce(answer, old_frame, old_hist, old_price) ==
    IF ~answer.ok
    THEN [ok |-> FALSE, frame |-> old_frame, hist |-> old_hist, price |-> old_price]
    ELSE IF Len(answer.rows) = 0
    THEN [ok |-> FALSE, frame |-> "raw", hist |-> answer.rows, price |-> old_price]
    ELSE [ok |-> TRUE, frame |-> "raw", hist |-> answer.rows,
          price |-> IF old_price = NoPrice THEN answer.rows[Len(answer.rows)].Close
                    ELSE old_price]

\* fetch_data: the new (frame, hist, current_price) and the boolean returned
fetch_data(answer, old_frame, old_hist, old_price) ==
    IF ~answer.ok
    THEN \* history() raised: caught, nothing assigned
         [ok |-> FALSE, frame |-> old_frame, hist |-> old_hist, price |-> old_price]
    ELSE IF Len(answer.rows) = 0
    THEN [ok |-> FALSE, frame |-> "raw", hist |-> answer.rows, price |-> old_price]
    ELSE [ok |-> TRUE, frame |-> "raw", hist |-> answer.rows,
          price |-> answer.rows[Len(answer.rows)].Close]

\* the bands of analyze_volume
VolumeResult(ratio, avg_volume) ==
    [vol_ratio |-> ratio,
     signal |-> IF Ge(ratio, Val(2, 1)) THEN "STRONG ACCUMULATION"
                ELSE IF Ge(ratio, Val(3, 2)) THEN "INSTITUTIONAL BUYING"
                ELSE IF Ge(ratio, Val(1, 1)) THEN "Above Average"
                ELSE "Below Average",
     avg_volume |-> avg_volume]

\* current_volume / avg_volume over the cnt rows from a to n, whose volumes sum to total
VolumeOver(h, n, cnt, total) == VolumeResult(Val(h[n].Volume * cnt, total), Val(total, cnt))

\* analyze_volume
analyze_volume(h, fr) ==
    IF fr = "none" \/ Len(h) = 0
    THEN [vol_ratio |-> Val(1, 1), signal |-> "Unable to calculate", avg_volume |-> Val(0, 1)]
    ELSE VolumeOver(h, Len(h), Len(h) - TailFrom(Len(h), 50) + 1,
                    SumVolume(h, TailFrom(Len(h), 50), Len(h)))

\* mutant: the except branch hands back the values of an underperforming stock
RSUnableLagging ==
    [rs_advantage |-> Val(0 - 1, 1), stock_return |-> Val(0, 1), spy_return |-> Val(1, 1),
     rating |-> "Underperforming"]

\* what the except branch of calculate_relative_strength returns
RSUnable ==
    [rs_advantage |-> Val(0, 1), stock_return |-> Val(0, 1), spy_return |-> Val(0, 1),
     rating |-> "Unable to calculate"]

\* (last / first - 1) * 100
ReturnPct(last, first) == Val((last - first) * 100, first)

\* the rating bands of calculate_relative_strength
RSResult(rs_advantage, stock_return, spy_return) ==
    [rs_advantage |-> rs_advantage, stock_return |-> stock_return,
     spy_return |-> spy_return,
     rating |-> IF Ge(rs_advantage, Val(20, 1)) THEN "EXCEPTIONAL"
                ELSE IF Ge(rs_advantage, Val(10, 1)) THEN "STRONG"
                ELSE IF Ge(rs_advantage, Val(0, 1)) THEN "Outperforming"
                ELSE "Underperforming"]

RSOf(stock_return, spy_return) ==
    RSResult(Sub(stock_return, spy_return), stock_return, spy_return)

\* the two branches on len(self.hist) >= 126 and len(spy) >= 126
RSBranch(h, n, c, m) ==
    IF n >= 126 /\ m >= 126
    THEN RSOf(ReturnPct(h[n].Close, h[Iloc(n, 126)].Close), ReturnPct(c[m], c[Iloc(m, 126)]))
    ELSE RSOf(ReturnPct(h[n].Close, h[1].Close), ReturnPct(c[m], c[1]))

\* calculate_relative_strength, spy being the benchmark provider's answer
calculate_relative_strength(h, fr, spy) ==
    IF ~spy.ok \/ fr = "none" \/ Len(h) = 0 \/ Len(spy.close) = 0
    THEN RSUnable
    ELSE RSBranch(h, Len(h), spy.close, Len(spy.close))

CriteriaNames ==
    {"price_above_150sma", "price_above_200sma", "150sma_above_200sma",
     "200sma_trending_up", "50sma_above_150sma", "50sma_above_200sma",
     "price_above_50sma", "price_above_52w_low", "price_near_52w_high",
     "outperforming_market"}

\* a Python truth value kept in the criteria dict: "True", "False" or "None"
PyBool(b) == IF b THEN "True" ELSE "False"

\* what the except branch of minervini_trend_template returns
TrendFailure == [trend_passed |-> FALSE, criteria |-> <<>>, passed |-> 0, total |-> 8]

\* mutant: every criterion has to hold
TrendPassedAll(passed) == passed >= Cardinality(CriteriaNames)

\* passed >= 7
TrendPassed(passed) == passed >= 7

\* sma_200_now > sma_200_month_ago if sma_200_month_ago else False
\* (None below 22 rows; a NaN is truthy and compares false)
Sma200TrendingUp(h, n) ==
    IF n >= 22 THEN PyBool(Gt(SMA(h, 200, n), SMA(h, 200, Iloc(n, 22)))) ELSE "False"

\* the criteria dict, from the last close (in cents), the moving averages of the last
\* row, the 52-week extremes and rs_advantage
Criteria(price, sma50, sma150, sma200, trending, low_52week, high_52week, rs_advantage) ==
    [k \in CriteriaNames |->
        CASE k = "price_above_150sma" -> PyBool(Gt(Val(price, 1), sma150))
          [] k = "price_above_200sma" -> PyBool(Gt(Val(price, 1), sma200))
          [] k = "150sma_above_200sma" -> PyBool(Gt(sma150, sma200))
          [] k = "200sma_trending_up" -> trending
          [] k = "50sma_above_150sma" -> PyBool(Gt(sma50, sma150))
          [] k = "50sma_above_200sma" -> PyBool(Gt(sma50, sma200))
          [] k = "price_above_50sma" -> PyBool(Gt(Val(price, 1), sma50))
          \* close / low - 1 >= 0.30
          [] k = "price_above_52w_low" -> PyBool(price * 10 >= low_52week * 13)
          \* (high - close) / high <= 0.25
          [] k = "price_near_52w_high" -> PyBool((high_52week - price) * 4 <= high_52week)
          [] k = "outperforming_market" -> PyBool(Gt(rs_advantage, Val(0, 1)))]

\* valid_criteria, passed, total and the tuple returned
TemplateResult(criteria) ==
    LET valid_criteria == {k \in DOMAIN criteria : criteria[k] # "None"}
        passed == Cardinality({k \in valid_criteria : criteria[k] = "True"})
    IN [trend_passed |-> TrendPassed(passed), criteria |-> criteria,
        passed |-> passed, total |-> Cardinality(valid_criteria)]

\* first row of the 52-week window: .iloc[-252:] from 252 rows on, else the whole series
From52w(n) == IF n >= 252 THEN Iloc(n, 252) ELSE 1

\* minervini_trend_template, spy being the answer its benchmark fetch gets
minervini_trend_template(h, fr, spy) ==
    IF fr # "sma" \/ Len(h) = 0
    THEN TrendFailure
    ELSE TemplateResult(
             Criteria(h[Len(h)].Close, SMA(h, 50, Len(h)), SMA(h, 150, Len(h)),
                      SMA(h, 200, Len(h)), Sma200TrendingUp(h, Len(h)),
                      MinLow(h, From52w(Len(h)), Len(h)),
                      MaxHigh(h, From52w(Len(h)), Len(h)),
                      calculate_relative_strength(h, fr, spy).rs_advantage))

\* the classification of identify_stage
StageOf(price_above_150, sma_150_rising, making_higher_highs) ==
    IF price_above_150 /\ sma_150_rising /\ making_higher_highs
    THEN [stage |-> 2, desc |-> "Stage 2: Advancing (IDEAL)"]
    ELSE IF price_above_150 /\ sma_150_rising
    THEN [stage |-> 2, desc |-> "Stage 2: Advancing"]
    ELSE IF price_above_150
    THEN [stage |-> 1, desc |-> "Stage 1: Basing"]
    ELSE [stage |-> 4, desc |-> "Stage 4: Declining"]

StageWith(h, n, sma150) ==
    IF sma150.nan
    THEN [stage |-> 0, desc |-> "Insufficient data"]
    ELSE StageOf(Gt(CloseAt(h, n), sma150),
                 Gt(sma150, SMA(h, 150, Iloc(n, 10))),
                 h[n].High = MaxHigh(h, TailFrom(n, 60), n))

\* identify_stage
identify_stage(h, fr) ==
    IF fr # "sma" \/ Len(h) = 0
    THEN [stage |-> 0, desc |-> "Error"]
    ELSE StageWith(h, Len(h), SMA(h, 150, Len(h)))

\* sum of the 10 daily ranges ending at row t of the 50-row tail (10 * 'Volatility')
Volatility10(h, n, t) == SumRange(h, n - 50 + t - 9, n - 50 + t)

VcpOf(vol_now, vol_20, vol_40, tight) ==
    IF vol_now < vol_20 /\ vol_20 < vol_40 /\ tight
    THEN [detected |-> TRUE, msg |-> "VCP detected: Tight action"]
    ELSE IF vol_now < vol_20 /\ vol_20 < vol_40
    THEN [detected |-> TRUE, msg |-> "VCP forming"]
    ELSE [detected |-> FALSE, msg |-> "No VCP"]

\* Range / Close < 0.015 on each of the last 3 rows
Tight(h, n) == \A i \in (n - 2)..n : (h[i].High - h[i].Low) * 200 < 3 * h[i].Close

\* detect_vcp_pattern
detect_vcp_pattern(h, fr) ==
    IF fr = "none" THEN [detected |-> FALSE, msg |-> "Error"]
    ELSE IF Len(h) < 50 THEN [detected |-> FALSE, msg |-> "Insufficient data"]
    ELSE VcpOf(Volatility10(h, Len(h), 50), Volatility10(h, Len(h), 31),
               Volatility10(h, Len(h), 11), Tight(h, Len(h)))

NoPivot == 0 - 1

\* the depth tests of detect_cup_with_handle
CupOf(cup_high, cup_low, handle_high, handle_low) ==
    \* 0.10 <= (cup_high - cup_low) / cup_high <= 0.35
    IF ~(/\ 10 * cup_high <= (cup_high - cup_low) * 100
         /\ (cup_high - cup_low) * 100 <= 35 * cup_high)
    THEN [detected |-> FALSE, pivot |-> NoPivot, msg |-> "No valid cup"]
    \* 0.05 <= handle_depth <= 0.15 and handle_high >= cup_high * 0.95
    ELSE IF /\ 5 * handle_high <= (handle_high - handle_low) * 100
            /\ (handle_high - handle_low) * 100 <= 15 * handle_high
            /\ handle_high * 100 >= cup_high * 95
    THEN [detected |-> TRUE, pivot |-> handle_high, msg |-> "Cup-with-Handle detected"]
    ELSE [detected |-> FALSE, pivot |-> NoPivot, msg |-> "Cup present, handle not ideal"]

\* cup_low_idx: the lowest low of the 40 rows from the cup high on, or of the whole
\* window when fewer than 40 rows follow
CupLowIdx(h, a, n, cup_high_idx) ==
    IF n - cup_high_idx + 1 >= 40
    THEN IdxMinLow(h, cup_high_idx, cup_high_idx + 39)
    ELSE IdxMinLow(h, a, n)

CupAt(h, a, n, cup_high_idx) ==
    CupOf(h[cup_high_idx].High, h[CupLowIdx(h, a, n, cup_high_idx)].Low,
          MaxHigh(h, TailFrom(n, 15), n), MinLow(h, TailFrom(n, 15), n))

\* the window of lookback = min(120, len) rows starts at row a
CupIn(h, a, n) == CupAt(h, a, n, IdxMaxHigh(h, a, n - 20))

\* detect_cup_with_handle
detect_cup_with_handle(h, fr) ==
    IF fr = "none" THEN [detected |-> FALSE, pivot |-> NoPivot, msg |-> "Error"]
    ELSE IF Len(h) < 60 THEN [detected |-> FALSE, pivot |-> NoPivot, msg |-> "Insufficient data"]
    ELSE CupIn(h, Len(h) - Min2(120, Len(h)) + 1, Len(h))

\* depth < 0.15 and lookback >= 25 and distance >= -5
FlatOf(high, low, close, lookback) ==
    IF /\ (high - low) * 100 < 15 * high
       /\ lookback >= 25
       /\ (close - high) * 100 >= (0 - 5) * high
    THEN [detected |-> TRUE, pivot |-> high, msg |-> "Flat Base detected"]
    ELSE [detected |-> FALSE, pivot |-> NoPivot, msg |-> "No flat base"]

FlatIn(h, a, n, lookback) ==
    FlatOf(MaxHigh(h, a, n), MinLow(h, a, n), h[n].Close, lookback)

\* detect_flat_base
detect_flat_base(h, fr) ==
    IF fr = "none" THEN [detected |-> FALSE, pivot |-> NoPivot, msg |-> "Error"]
    ELSE IF Len(h) < 25 THEN [detected |-> FALSE, pivot |-> NoPivot, msg |-> "Insufficient data"]
    ELSE FlatIn(h, Len(h) - Min2(50, Len(h)) + 1, Len(h), Min2(50, Len(h)))

\* mutant: the flat base is tried before the cup
SelectOfFlatFirst(h, n, cup, flat, vcp) ==
    IF flat.detected THEN [pivot |-> flat.pivot, pattern |-> "Flat Base"]
    ELSE IF cup.detected THEN [pivot |-> cup.pivot, pattern |-> "Cup-with-Handle"]
    ELSE IF vcp.detected
    THEN [pivot |-> MaxHigh(h, TailFrom(n, 10), n), pattern |-> "VCP"]
    ELSE [pivot |-> MaxHigh(h, TailFrom(n, 20), n), pattern |-> "Recent Swing High"]

\* the if / elif chain over the three detectors
SelectOf(h, n, cup, flat, vcp) ==
    IF cup.detected THEN [pivot |-> cup.pivot, pattern |-> "Cup-with-Handle"]
    ELSE IF flat.detected THEN [pivot |-> flat.pivot, pattern |-> "Flat Base"]
    ELSE IF vcp.detected
    THEN [pivot |-> MaxHigh(h, TailFrom(n, 10), n), pattern |-> "VCP"]
    ELSE [pivot |-> MaxHigh(h, TailFrom(n, 20), n), pattern |-> "Recent Swing High"]

\* the pattern branch of calculate_buy_point_and_stops: pivot and pattern name
SelectPattern(h, fr) ==
    SelectOf(h, Len(h), detect_cup_with_handle(h, fr), detect_flat_base(h, fr),
             detect_vcp_pattern(h, fr))

\* mutant: the percentage stop is left out
StopLossTechnical(recent_low, pivot) == (recent_low * 99) \div 100

\* mutant: the lower of the two stops is taken
StopLossLower(recent_low, pivot) == Min2((recent_low * 99) \div 100, (pivot * 93) \div 100)

\* max(technical_stop, percentage_stop)
StopLoss(recent_low, pivot) == Max2((recent_low * 99) \div 100, (pivot * 93) \div 100)

\* mutant: the final else is missing, status keeps its initial None
StatusNoElse(price, pivot) ==
    IF (0 - 2) * pivot <= (price - pivot) * 100 /\ (price - pivot) * 100 <= 0
    THEN "AT BUY POINT"
    ELSE IF 0 < (price - pivot) * 100 /\ (price - pivot) * 100 <= 5 * pivot
    THEN "BREAKING OUT"
    ELSE IF (price - pivot) * 100 > 5 * pivot THEN "EXTENDED"
    ELSE "None"

\* the status branch on distance_from_pivot = (current_price - pivot) / pivot * 100
Status(price, pivot) ==
    IF (0 - 2) * pivot <= (price - pivot) * 100 /\ (price - pivot) * 100 <= 0
    THEN "AT BUY POINT"
    ELSE IF 0 < (price - pivot) * 100 /\ (price - pivot) * 100 <= 5 * pivot
    THEN "BREAKING OUT"
    ELSE IF (price - pivot) * 100 > 5 * pivot THEN "EXTENDED"
    ELSE "BELOW PIVOT"

\* what calculate_buy_point_and_stops leaves when an unguarded statement raises
LevelsRaised ==
    [raised |-> TRUE, nan |-> FALSE, buy_point |-> NoPivot, current_price |-> NoPrice,
     stop_loss |-> NoPivot, profit_target_20pct |-> NoPivot, profit_target_2to1 |-> NoPivot,
     profit_target_3to1 |-> NoPivot, pattern |-> "None", status |-> "None",
     distance_from_pivot |-> NaN, risk_per_share |-> NoPivot]

\* on an empty frame every .max() / .min() is NaN: all levels are NaN, every
\* comparison of the status branch is false
LevelsNaN(price) ==
    [raised |-> FALSE, nan |-> TRUE, buy_point |-> NoPivot, current_price |-> price,
     stop_loss |-> NoPivot, profit_target_20pct |-> NoPivot, profit_target_2to1 |-> NoPivot,
     profit_target_3to1 |-> NoPivot, pattern |-> "Recent Swing High", status |-> "BELOW PIVOT",
     distance_from_pivot |-> NaN, risk_per_share |-> NoPivot]

\* the results dict, risk_per_share being pivot - stop_loss
Levels(price, pivot, pattern, stop_loss, status) ==
    [raised |-> FALSE,
     nan |-> FALSE,
     buy_point |-> pivot,
     current_price |-> price,
     stop_loss |-> stop_loss,
     profit_target_20pct |-> (pivot * 120) \div 100,
     profit_target_2to1 |-> pivot + (pivot - stop_loss) * 2,
     profit_target_3to1 |-> pivot + (pivot - stop_loss) * 3,
     pattern |-> pattern,
     status |-> status,
     distance_from_pivot |-> Val((price - pivot) * 100, pivot),
     risk_per_share |-> pivot - stop_loss]

LevelsFor(price, sel, recent_low) ==
    Levels(price, sel.pivot, sel.pattern, StopLoss(recent_low, sel.pivot),
           Status(price, sel.pivot))

\* calculate_buy_point_and_stops
calculate_buy_point_and_stops(h, fr, price) ==
    IF fr = "none" THEN LevelsRaised          \* None['High']: TypeError
    ELSE IF Len(h) = 0
    THEN IF price = NoPrice THEN LevelsRaised \* None - nan: TypeError
         ELSE LevelsNaN(price)
    ELSE LevelsFor(price, SelectPattern(h, fr), MinLow(h, TailFrom(Len(h), 10), Len(h)))

\* self.account_balance * 0.01
RiskBudget(balance) == balance \div 100

\* mutant: the quotient is rounded up instead of truncated
MaxSharesCeil(risk_budget, risk_per_share) ==
    IF risk_per_share > 0
    THEN (risk_budget + risk_per_share - 1) \div risk_per_share
    ELSE 0

\* int(risk_budget / risk_per_share) if risk_per_share > 0 else 0
MaxShares(risk_budget, risk_per_share) ==
    IF risk_per_share > 0 THEN risk_budget \div risk_per_share ELSE 0

\* the dict returned by calculate_position_sizing
Position(balance, buy_point, risk_budget, max_shares) ==
    [max_shares |-> max_shares,
     pilot_quarter |-> max_shares \div 4,
     pilot_half |-> max_shares \div 2,
     pilot_three_quarter |-> (max_shares * 3) \div 4,
     total_investment |-> max_shares * buy_point,
     portfolio_allocation_pct |-> Val(max_shares * buy_point * 100, balance),
     risk_budget |-> risk_budget]

\* calculate_position_sizing
calculate_position_sizing(balance, buy_point, stop_loss) ==
    Position(balance, buy_point, RiskBudget(balance),
             MaxShares(RiskBudget(balance), buy_point - stop_loss))

\* str(stage) of the integer stage
StrOfStage(stage) ==
    CASE stage = 0 -> "0" [] stage = 1 -> "1" [] stage = 2 -> "2" [] stage = 4 -> "4"
\* "IDEAL" in s, over the texts the program forms
HasIDEAL(s) == s = "Stage 2: Advancing (IDEAL)"

\* the stage part of the score
StageComponent(stage) ==
    IF stage = 2 /\ HasIDEAL(StrOfStage(stage)) THEN 30
    ELSE IF stage = 2 THEN 25
    ELSE IF stage = 1 THEN 15
    ELSE 0

\* the pattern part of the score
PatternComponent(pattern) ==
    IF pattern = "Cup-with-Handle" THEN 30
    ELSE IF pattern = "Flat Base" THEN 25
    ELSE IF pattern = "VCP" THEN 28
    ELSE 10

\* (trend_score / 8) * 40: an exact multiple of 5 for an integer trend_score
TrendComponent(trend_score) == (trend_score * 40) \div 8

\* mutant: strict comparisons at the band edges
GradeOfStrict(score) ==
    IF score > 90 THEN "A+"
    ELSE IF score > 85 THEN "A"
    ELSE IF score > 75 THEN "B+"
    ELSE IF score > 65 THEN "B"
    ELSE IF score > 50 THEN "C+"
    ELSE "C"

\* the grade bands
GradeOf(score) ==
    IF score >= 90 THEN "A+"
    ELSE IF score >= 85 THEN "A"
    ELSE IF score >= 75 THEN "B+"
    ELSE IF score >= 65 THEN "B"
    ELSE IF score >= 50 THEN "C+"
    ELSE "C"

Graded(score) == [grade |-> GradeOf(score), score |-> score]

\* grade_setup
grade_setup(trend_passed, trend_score, stage, pattern) ==
    Graded(TrendComponent(trend_score) + StageComponent(stage) + PatternComponent(pattern))

\* mutant: B+ is left out of the buyable grades
VerdictNoBPlus(status, grade) ==
    IF status \in {"AT BUY POINT", "BREAKING OUT"} /\ grade \in {"A+", "A"}
    THEN "BUY" ELSE "WAIT"

\* the verdict expression of analyze
Verdict(status, grade) ==
    IF status \in {"AT BUY POINT", "BREAKING OUT"} /\ grade \in {"A+", "A", "B+"}
    THEN "BUY" ELSE "WAIT"

\* the dict analyze returns
Report(sym, vol, rs, tt, st, buy_analysis, position, g) ==
    [symbol |-> sym,
     verdict |-> Verdict(buy_analysis.status, g.grade),
     grade |-> g.grade,
     score |-> g.score,
     current_price |-> buy_analysis.current_price,
     buy_point |-> buy_analysis.buy_point,
     stop_loss |-> buy_analysis.stop_loss,
     target_20pct |-> buy_analysis.profit_target_20pct,
     target_2to1 |-> buy_analysis.profit_target_2to1,
     target_3to1 |-> buy_analysis.profit_target_3to1,
     status |-> buy_analysis.status,
     pattern |-> buy_analysis.pattern,
     stage |-> st.desc,
     trend_score |-> <<tt.passed, tt.total>>,
     trend_passed |-> tt.trend_passed,
     criteria |-> tt.criteria,
     volume_ratio |-> vol.vol_ratio,
     volume_signal |-> vol.signal,
     rs_advantage |-> rs.rs_advantage,
     rs_rating |-> rs.rating,
     stock_return |-> rs.stock_return,
     spy_return |-> rs.spy_return,
     max_shares |-> position.max_shares,
     pilot_quarter |-> position.pilot_quarter,
     pilot_half |-> position.pilot_half,
     total_investment |-> position.total_investment,
     portfolio_allocation |-> position.portfolio_allocation_pct,
     risk_budget |-> position.risk_budget,
     distance_from_pivot |-> buy_analysis.distance_from_pivot]

\* position sizing and grading, from the results of the earlier steps
Assemble(sym, balance, vol, rs, tt, st, buy_analysis) ==
    [raised |-> buy_analysis.raised,
     r |-> Report(sym, vol, rs, tt, st, buy_analysis,
                  calculate_position_sizing(balance, buy_analysis.buy_point,
                                            buy_analysis.stop_loss),
                  grade_setup(tt.trend_passed, tt.passed, st.stage, buy_analysis.pattern))]

\* analyze after fetch_data returned f; spy1 answers the benchmark fetch of analyze's
\* own relative-strength call, spy2 the one made inside minervini_trend_template
Analysis(sym, balance, f, spy1, spy2) ==
    IF ~f.ok
    THEN [none |-> TRUE, f |-> f, spy |-> <<>>, out |-> [raised |-> FALSE, r |-> <<>>]]
    ELSE [none |-> FALSE, f |-> [f EXCEPT !.frame = "sma"], spy |-> <<spy1, spy2>>,
          out |-> Assemble(sym, balance,
                           analyze_volume(f.hist, "sma"),
                           calculate_relative_strength(f.hist, "sma", spy1),
                           minervini_trend_template(f.hist, "sma", spy2),
                           identify_stage(f.hist, "sma"),
                           calculate_buy_point_and_stops(f.hist, "sma", f.price))]

\* analyze on an object in state (fr, h, price): the fields it leaves and what it returns
analyze(sym, balance, fr, h, price, answer, spy1, spy2) ==
    Analysis(sym, balance, fetch_data(answer, fr, h, price), spy1, spy2)

(***************************************************************************)
(* State machine: one screener object and the calls made on it             *)
(***************************************************************************)
Balances == {Dollars(1000 * k) : k \in 1..MaxBalanceK}
Quotes == {Dollars(d) : d \in 1..MaxQuote}
Stages == {0, 1, 2, 4}
Patterns == {"Cup-with-Handle", "Flat Base", "VCP", "Recent Swing High"}

Init ==
    /\ symbol \in {Upper(s) : s \in Symbols}
    /\ account_balance \in Balances
    /\ frame = "none"
    /\ hist = <<>>
    /\ current_price = NoPrice
    /\ spy_calls = <<>>
    /\ ret = [op |-> "__init__"]
    /\ symbols = <<>>
    /\ loop_i = 0
    /\ results = <<>>
    /\ calls = [history |-> <<>>, benchmark |-> <<>>]

\* MinerviniScreenerEnhanced(symbol, account_balance): a new object replaces the old one
Construct(s, balance) ==
    /\ symbol' = Upper(s)
    /\ account_balance' = balance
    /\ frame' = "none"
    /\ hist' = <<>>
    /\ current_price' = NoPrice
    /\ spy_calls' = <<>>
    /\ ret' = [op |-> "__init__"]
    /\ UNCHANGED batchVars

\* main() drops the screener once analyze has returned: no further call on it
InUse == ret.op # "analyze"

FetchData(answer) ==
    /\ InUse
    /\ \E f \in {fetch_data(answer, frame, hist, current_price)} :
        /\ frame' = f.frame
        /\ hist' = f.hist
        /\ current_price' = f.price
        /\ ret' = [op |-> "fetch_data", ok |-> f.ok]
    /\ spy_calls' = <<>>
    /\ UNCHANGED <<symbol, account_balance>>
    /\ UNCHANGED batchVars

\* the SMA_* columns are added to self.hist; on None the subscript raises
CalculateMovingAverages ==
    /\ InUse
    /\ frame' = IF frame = "none" THEN "none" ELSE "sma"
    /\ spy_calls' = <<>>
    /\ ret' = [op |-> "calculate_moving_averages", raised |-> (frame = "none")]
    /\ UNCHANGED <<symbol, account_balance, hist, current_price>>
    /\ UNCHANGED batchVars

\* calculate_relative_strength called on its own; the benchmark is fetched first
CalculateRelativeStrength(spy) ==
    /\ InUse
    /\ spy_calls' = <<spy>>
    /\ ret' = [op |-> "calculate_relative_strength",
               rs |-> calculate_relative_strength(hist, frame, spy)]
    /\ UNCHANGED <<symbol, account_balance, frame, hist, current_price>>
    /\ UNCHANGED batchVars

MinerviniTrendTemplate(spy) ==
    /\ InUse
    \* the benchmark is fetched only when the criteria before it did not raise
    /\ spy_calls' = IF frame = "sma" /\ Len(hist) > 0 THEN <<spy>> ELSE <<>>
    /\ ret' = [op |-> "minervini_trend_template",
               tt |-> minervini_trend_template(hist, frame, spy)]
    /\ UNCHANGED <<symbol, account_balance, frame, hist, current_price>>
    /\ UNCHANGED batchVars

CalculateBuyPointAndStops ==
    /\ InUse
    /\ spy_calls' = <<>>
    /\ ret' = [op |-> "calculate_buy_point_and_stops",
               levels |-> calculate_buy_point_and_stops(hist, frame, current_price)]
    /\ UNCHANGED <<symbol, account_balance, frame, hist, current_price>>
    /\ UNCHANGED batchVars

\* calculate_position_sizing reads account_balance only: called on a new object
CalculatePositionSizing(buy_point, stop_loss) ==
    /\ InUse
    /\ frame = "none"
    /\ spy_calls' = <<>>
    /\ ret' = [op |-> "calculate_position_sizing", buy_point |-> buy_point,
               stop_loss |-> stop_loss,
               position |-> calculate_position_sizing(account_balance, buy_point, stop_loss)]
    /\ UNCHANGED <<symbol, account_balance, frame, hist, current_price>>
    /\ UNCHANGED batchVars

\* grade_setup reads no field of the object: called on a new object
GradeSetup(trend_passed, trend_score, stage, pattern) ==
    /\ InUse
    /\ frame = "none"
    /\ spy_calls' = <<>>
    /\ ret' = [op |-> "grade_setup", trend_score |-> trend_score, stage |-> stage,
               pattern |-> pattern,
               g |-> grade_setup(trend_passed, trend_score, stage, pattern)]
    /\ UNCHANGED <<symbol, account_balance, frame, hist, current_price>>
    /\ UNCHANGED batchVars

\* screener = MinerviniScreenerEnhanced(...); result = screener.analyze()
Analyze(answer, spy1, spy2) ==
    /\ ret.op = "__init__"
    /\ \E a \in {analyze(symbol, account_balance, frame, hist, current_price,
                         answer, spy1, spy2)} :
        /\ frame' = a.f.frame
        /\ hist' = a.f.hist
        /\ current_price' = a.f.price
        /\ spy_calls' = a.spy
        /\ ret' = [op |-> "analyze", none |-> a.none, raised |-> a.out.raised,
                   r |-> a.out.r]
    /\ UNCHANGED <<symbol, account_balance>>
    /\ UNCHANGED batchVars

Next ==
    \/ \E s \in Symbols, b \in Balances : Construct(s, b)
    \/ \E answer \in HistoryAnswers : FetchData(answer)
    \/ CalculateMovingAverages
    \/ \E spy \in SpyAnswers : CalculateRelativeStrength(spy)
    \/ \E spy \in SpyAnswers : MinerviniTrendTemplate(spy)
    \/ CalculateBuyPointAndStops
    \/ \E bp \in Quotes, sl \in Quotes : CalculatePositionSizing(bp, sl)
    \/ \E ts \in 0..Cardinality(CriteriaNames), st \in Stages, p \in Patterns :
           GradeSetup(TrendPassed(ts), ts, st, p)
    \/ \E answer \in HistoryAnswers, spy1 \in SpyAnswers, spy2 \in SpyAnswers :
           Analyze(answer, spy1, spy2)

Spec == Init /\ [][Next]_vars

(***************************************************************************)
(* analyze called a second time on the same object                         *)
(***************************************************************************)
\* the provider's answers to the second call
AgainHistory ==
    {[ok |-> FALSE, rows |-> <<>>], [ok |-> TRUE, rows |-> <<>>],
     [ok |-> TRUE, rows |-> Series("down", 22)]}
AgainSpy == <<[ok |-> FALSE, close |-> <<>>], [ok |-> TRUE, close |-> SpySeries("bear", 130)]>>

\* the history answer the first call on a new object got, read back from the object:
\* self.hist is still None only if history() raised
FirstAnswer ==
    IF frame = "none" THEN [ok |-> FALSE, rows |-> <<>>] ELSE [ok |-> TRUE, rows |-> hist]

\* result = screener.analyze() on a screener whose analyze has returned once
AnalyzeAgain(answer, spy) ==
    /\ ret.op = "analyze"
    /\ \E a \in {analyze(symbol, account_balance, frame, hist, current_price,
                         answer, spy[1], spy[2])} :
        /\ frame' = a.f.frame
        /\ hist' = a.f.hist
        /\ current_price' = a.f.price
        /\ spy_calls' = a.spy
        /\ ret' = [op |-> "analyze again", none |-> a.none, raised |-> a.out.raised,
                   r |-> a.out.r, answer |-> answer, spy |-> spy,
                   first |-> [none |-> ret.none, r |-> ret.r, answer |-> FirstAnswer,
                              spy |-> spy_calls]]
    /\ UNCHANGED <<symbol, account_balance>>
    /\ UNCHANGED batchVars

RerunNext ==
    \/ \E s \in Symbols, b \in Balances : Construct(s, b)
    \/ \E answer \in HistoryAnswers, spy1 \in SpyAnswers, spy2 \in SpyAnswers :
           Analyze(answer, spy1, spy2)
    \/ \E answer \in AgainHistory \cup {FirstAnswer},
          spy \in {AgainSpy} \cup (IF Len(spy_calls) = 2 THEN {spy_calls} ELSE {}) :
           AnalyzeAgain(answer, spy)

RerunSpec == Init /\ [][RerunNext]_vars

(***************************************************************************)
(* main(), batch screener: the for loop over the watchlist                 *)
(***************************************************************************)
\* str.strip() on the pieces of the watchlist text the model enters
Strip(s) == CASE s = " msft" -> "msft" [] s = " " -> "" [] OTHER -> s

\* [s.strip().upper() for s in watchlist_input.split(',') if s.strip()]
RECURSIVE ParseWatchlist(_)
ParseWatchlist(pieces) ==
    IF pieces = <<>> THEN <<>>
    ELSE IF Strip(Head(pieces)) = "" THEN ParseWatchlist(Tail(pieces))
    ELSE <<Upper(Strip(Head(pieces)))>> \o ParseWatchlist(Tail(pieces))

\* watchlist_input.split(','), for the texts entered
Watchlists ==
    {<<" ">>, <<"aapl">>, <<"aapl", " msft">>, <<" msft", " ", "aapl">>,
     <<"aapl", " msft", "aapl">>}

\* the provider's answers during a batch run
BatchHistory ==
    {[ok |-> FALSE, rows |-> <<>>], [ok |-> TRUE, rows |-> <<>>],
     [ok |-> TRUE, rows |-> Series("down", 22)], [ok |-> TRUE, rows |-> Series("cup", 160)]}
BatchSpy ==
    {[ok |-> FALSE, close |-> <<>>]}
    \cup {[ok |-> TRUE, close |-> SpySeries("bear", 130)]}

\* mutant: the screener is built once, before the loop, and used for every symbol
NewScreenerOnce(sym, balance, old) ==
    IF old.symbol = "" THEN
        [symbol |-> Upper(sym), account_balance |-> balance, frame |-> "none",
         hist |-> <<>>, current_price |-> NoPrice]
    ELSE old

\* screener = MinerviniScreenerEnhanced(symbol, account_balance); old is the object the
\* name screener was bound to before
NewScreener(sym, balance, old) ==
    [symbol |-> Upper(sym), account_balance |-> balance, frame |-> "none",
     hist |-> <<>>, current_price |-> NoPrice]

\* if result: results.append(result)
Collect(rs, a) == IF a.none THEN rs ELSE Append(rs, a.out.r)

\* the script run started by the Screen All button, up to the for statement
BatchInit ==
    /\ symbol = ""
    /\ account_balance \in Balances
    /\ frame = "none"
    /\ hist = <<>>
    /\ current_price = NoPrice
    /\ spy_calls = <<>>
    /\ ret = [op |-> "main"]
    /\ symbols \in {ParseWatchlist(w) : w \in Watchlists}
    /\ loop_i = 0
    /\ results = <<>>
    /\ calls = [history |-> <<>>, benchmark |-> <<>>]

Screener ==
    [symbol |-> symbol, account_balance |-> account_balance, frame |-> frame,
     hist |-> hist, current_price |-> current_price]

\* one pass of the loop body on the object o, the provider giving answer, spy1, spy2
BatchBody(o, a, answer) ==
    /\ symbol' = o.symbol
    /\ account_balance' = o.account_balance
    /\ frame' = a.f.frame
    /\ hist' = a.f.hist
    /\ current_price' = a.f.price
    /\ spy_calls' = a.spy
    /\ ret' = [op |-> "analyze", none |-> a.none, raised |-> a.out.raised, r |-> a.out.r]
    /\ calls' = [history |-> Append(calls.history, [symbol |-> o.symbol, answer |-> answer]),
                 benchmark |-> calls.benchmark \o a.spy]
    \* an exception leaves the loop: nothing is appended, no further pass
    /\ results' = IF a.out.raised THEN results ELSE Collect(results, a)
    /\ loop_i' = IF a.out.raised THEN loop_i ELSE loop_i + 1

BatchAnalysis(o, answer, spy1, spy2) ==
    BatchBody(o, analyze(o.symbol, o.account_balance, o.frame, o.hist, o.current_price,
                         answer, spy1, spy2), answer)

\* for i, symbol in enumerate(symbols): one pass
BatchIteration(answer, spy1, spy2) ==
    /\ ret.op \in {"main", "analyze"}
    /\ ret.op = "analyze" => ~ret.raised
    /\ loop_i < Len(symbols)
    /\ BatchAnalysis(NewScreener(symbols[loop_i + 1], account_balance, Screener),
                     answer, spy1, spy2)
    /\ UNCHANGED symbols

\* the loop is over: status_text.text("Analysis complete!")
BatchComplete ==
    /\ ret.op \in {"main", "analyze"}
    /\ ret.op = "analyze" => ~ret.raised
    /\ loop_i = Len(symbols)
    /\ ret' = [op |-> "complete"]
    /\ UNCHANGED <<symbol, account_balance, frame, hist, current_price, spy_calls>>
    /\ UNCHANGED batchVars

BatchNext ==
    \/ \E answer \in BatchHistory, spy1 \in BatchSpy, spy2 \in BatchSpy :
           BatchIteration(answer, spy1, spy2)
    \/ BatchComplete

\* the loop is sequential code: a pass that can run does run
BatchSpec == BatchInit /\ [][BatchNext]_vars /\ WF_vars(BatchNext)

(***************************************************************************)
(* Properties                                                              *)
(***************************************************************************)
AnalyzeReturned == ret.op = "analyze" /\ ~ret.none /\ ~ret.raised
TemplateReturned == ret.op = "minervini_trend_template"
TemplateRan == TemplateReturned /\ frame = "sma" /\ Len(hist) > 0
LevelsReturned ==
    ret.op = "calculate_buy_point_and_stops" /\ ~ret.levels.raised /\ ~ret.levels.nan
\* minimum low of the trailing 10 rows of the object's history
RecentLow10 == MinLow(hist, TailFrom(Len(hist), 10), Len(hist))

ResultFields ==
    {"symbol", "verdict", "grade", "score", "current_price", "buy_point", "stop_loss",
     "target_20pct", "target_2to1", "target_3to1", "status", "pattern", "stage",
     "trend_score", "trend_passed", "criteria", "volume_ratio", "volume_signal",
     "rs_advantage", "rs_rating", "stock_return", "spy_return", "max_shares",
     "pilot_quarter", "pilot_half", "total_investment", "portfolio_allocation",
     "risk_budget", "distance_from_pivot"}
Grades == {"A+", "A", "B+", "B", "C+", "C"}
Statuses == {"AT BUY POINT", "BREAKING OUT", "EXTENDED", "BELOW PIVOT"}
StageTexts ==
    {"Stage 2: Advancing (IDEAL)", "Stage 2: Advancing", "Stage 1: Basing",
     "Stage 4: Declining", "Insufficient data", "Error"}

Populated(r) ==
    /\ DOMAIN r = ResultFields
    /\ r.symbol = symbol
    /\ r.verdict \in {"BUY", "WAIT"}
    /\ r.grade \in Grades
    /\ r.score \in Int
    /\ r.current_price > 0 /\ r.buy_point > 0 /\ r.stop_loss > 0
    /\ r.target_20pct > 0 /\ r.target_2to1 > 0 /\ r.target_3to1 > 0
    /\ r.status \in Statuses
    /\ r.pattern \in Patterns
    /\ r.stage \in StageTexts
    /\ Len(r.trend_score) = 2
    /\ r.trend_passed \in BOOLEAN
    /\ DOMAIN r.criteria = CriteriaNames
    /\ \A k \in CriteriaNames : r.criteria[k] \in {"True", "False"}
    /\ ~r.volume_ratio.nan /\ r.volume_signal # "None"
    /\ ~r.rs_advantage.nan /\ ~r.stock_return.nan /\ ~r.spy_return.nan
    /\ r.rs_rating # "None"
    /\ r.max_shares >= 0 /\ r.pilot_quarter >= 0 /\ r.pilot_half >= 0
    /\ r.total_investment >= 0 /\ ~r.portfolio_allocation.nan
    /\ r.risk_budget > 0
    /\ ~r.distance_from_pivot.nan

\* C1: analyze returns None exactly when the history fetch raised or gave an empty
\* series; on every non-empty history, whatever its length and whatever the benchmark
\* fetches do, it raises nothing and returns a record with every field populated.
C1_AnalyzeTotal ==
    ret.op = "analyze" =>
        /\ ~ret.raised
        /\ ret.none <=> Len(hist) = 0
        /\ ~ret.none => Populated(ret.r)

\* a one-row history analysed while both benchmark fetches raise
C1_Witness ==
    /\ AnalyzeReturned
    /\ Len(hist) = 1
    /\ ~spy_calls[1].ok /\ ~spy_calls[2].ok
    /\ ret.r.rs_rating = "Unable to calculate"

\* C2: in every level plan stop_loss = max(recentLow10 * 0.99, pivot * 0.93), and
\* whenever the minimum low of the trailing 10 rows is below the pivot,
\* stop_loss < buy_point and risk_per_share = buy_point - stop_loss > 0.
C2_StopLoss ==
    /\ LevelsReturned =>
        LET lv == ret.levels IN
        /\ lv.stop_loss * 100 = Max2(RecentLow10 * 99, lv.buy_point * 93)
        /\ lv.risk_per_share = lv.buy_point - lv.stop_loss
        /\ RecentLow10 < lv.buy_point =>
               lv.stop_loss < lv.buy_point /\ lv.risk_per_share > 0
    /\ AnalyzeReturned =>
        /\ ret.r.stop_loss * 100 = Max2(RecentLow10 * 99, ret.r.buy_point * 93)
        /\ RecentLow10 < ret.r.buy_point => ret.r.stop_loss < ret.r.buy_point

\* a plan whose low-based stop is the higher of the two and lies below the pivot
C2_Witness ==
    /\ LevelsReturned
    /\ RecentLow10 < ret.levels.buy_point
    /\ RecentLow10 * 99 > ret.levels.buy_point * 93
    /\ ret.levels.stop_loss * 100 = RecentLow10 * 99

\* C3: risk_budget = 0.01 * account_balance; max_shares = floor(risk_budget /
\* risk_per_share) when risk_per_share = buy_point - stop_loss > 0 and 0 otherwise;
\* so max_shares >= 0 and max_shares * risk_per_share <= 1% of the balance.
C3_PositionSizing ==
    /\ ret.op = "calculate_position_sizing" =>
        LET pos == ret.position
            rps == ret.buy_point - ret.stop_loss
        IN /\ pos.risk_budget * 100 = account_balance
           /\ pos.max_shares >= 0
           /\ rps > 0 => /\ pos.max_shares * rps <= pos.risk_budget
                         /\ pos.risk_budget < (pos.max_shares + 1) * rps
           /\ rps <= 0 => pos.max_shares = 0
           /\ pos.max_shares * rps * 100 <= account_balance
    /\ AnalyzeReturned =>
        LET r == ret.r
            rps == r.buy_point - r.stop_loss
        IN /\ r.risk_budget * 100 = account_balance
           /\ r.max_shares >= 0
           /\ rps > 0 => /\ r.max_shares * rps <= r.risk_budget
                         /\ r.risk_budget < (r.max_shares + 1) * rps
           /\ rps <= 0 => r.max_shares = 0

\* a sizing call where the quotient is not whole, so the floor shows
C3_Witness ==
    /\ ret.op = "calculate_position_sizing"
    /\ ret.buy_point - ret.stop_loss > 0
    /\ ret.position.max_shares > 0
    /\ ret.position.max_shares * (ret.buy_point - ret.stop_loss) < ret.position.risk_budget

\* C4: the (passed, total) returned by minervini_trend_template satisfy
\* passed <= total <= 8.
C4_TotalAtMost8 ==
    /\ TemplateReturned => ret.tt.passed <= ret.tt.total /\ ret.tt.total <= 8
    /\ AnalyzeReturned =>
           ret.r.trend_score[1] <= ret.r.trend_score[2] /\ ret.r.trend_score[2] <= 8

\* C5: the score of every record returned by analyze lies in 0..100.
C5_ScoreRange ==
    AnalyzeReturned => 0 <= ret.r.score /\ ret.r.score <= 100

\* C6: verdict is BUY iff status is AT BUY POINT or BREAKING OUT and grade is A+, A
\* or B+; otherwise it is WAIT.
C6_Verdict ==
    AnalyzeReturned =>
        LET buy == /\ ret.r.status = "AT BUY POINT" \/ ret.r.status = "BREAKING OUT"
                   /\ ret.r.grade = "A+" \/ ret.r.grade = "A" \/ ret.r.grade = "B+"
        IN /\ ret.r.verdict = "BUY" <=> buy
           /\ ret.r.verdict = "WAIT" <=> ~buy

\* a B+ setup at its buy point
C6_Witness ==
    AnalyzeReturned /\ ret.r.verdict = "BUY" /\ ret.r.grade = "B+"
        /\ ret.r.status = "AT BUY POINT"

\* C7: trend_passed holds iff the number of criteria that hold is at least 7; on the
\* failure path the template returns trend_passed = false, passed = 0, total = 8.
C7_TrendPassed ==
    /\ TemplateRan =>
        LET tt == ret.tt
            holding == {k \in DOMAIN tt.criteria : tt.criteria[k] = "True"}
        IN /\ tt.passed = Cardinality(holding)
           /\ tt.trend_passed <=> Cardinality(holding) >= 7
    /\ TemplateReturned /\ ~TemplateRan =>
        ~ret.tt.trend_passed /\ ret.tt.passed = 0 /\ ret.tt.total = 8
    /\ AnalyzeReturned =>
        LET holding == {k \in CriteriaNames : ret.r.criteria[k] = "True"}
        IN /\ ret.r.trend_score[1] = Cardinality(holding)
           /\ ret.r.trend_passed <=> Cardinality(holding) >= 7

\* a template run that passes with one criterion failing
C7_Witness ==
    /\ TemplateRan
    /\ ret.tt.trend_passed
    /\ ret.tt.passed >= 7
    /\ \E k \in CriteriaNames : ret.tt.criteria[k] = "False"

\* the stage part of the score as the specification states it, by stage text
SpecStageComponent(text) ==
    IF text = "Stage 2: Advancing (IDEAL)" THEN 30
    ELSE IF text = "Stage 2: Advancing" THEN 25
    ELSE IF text = "Stage 1: Basing" THEN 15
    ELSE 0

SpecPatternComponent(pattern) ==
    CASE pattern = "Cup-with-Handle" -> 30
      [] pattern = "VCP" -> 28
      [] pattern = "Flat Base" -> 25
      [] OTHER -> 10

\* C8: score = (trend_score / 8) * 40 + stageComponent + patternComponent with
\* stageComponent 30 for Stage 2 'Advancing (IDEAL)', 25 for Stage 2, 15 for Stage 1,
\* 0 otherwise: an IDEAL classification scores 5 more than plain Stage 2.
C8_ScoreFormula ==
    AnalyzeReturned =>
        ret.r.score * 8 = ret.r.trend_score[1] * 40
                          + 8 * SpecStageComponent(ret.r.stage)
                          + 8 * SpecPatternComponent(ret.r.pattern)

GradeRank(g) ==
    CASE g = "A+" -> 5 [] g = "A" -> 4 [] g = "B+" -> 3 [] g = "B" -> 2
      [] g = "C+" -> 1 [] g = "C" -> 0

BandOf(score) ==
    CASE score >= 90 -> "A+"
      [] 85 <= score /\ score < 90 -> "A"
      [] 75 <= score /\ score < 85 -> "B+"
      [] 65 <= score /\ score < 75 -> "B"
      [] 50 <= score /\ score < 65 -> "C+"
      [] score < 50 -> "C"

GradeBands ==
    /\ ret.op = "grade_setup" => ret.g.grade = BandOf(ret.g.score)
    /\ AnalyzeReturned => ret.r.grade = BandOf(ret.r.score)

GradeMonotone ==
    ret.op = "grade_setup" /\ ret'.op = "grade_setup" /\ ret'.g.score >= ret.g.score
        => GradeRank(ret'.g.grade) >= GradeRank(ret.g.grade)

\* C9: the grade is a function of the score alone (>= 90 A+, 85..89 A, 75..84 B+,
\* 65..74 B, 50..64 C+, below 50 C) and a higher score never yields a lower grade.
C9_GradeBands == [](GradeBands) /\ [][GradeMonotone]_vars

\* a score exactly on the A+ boundary
C9_Witness ==
    ret.op = "grade_setup" /\ ret.g.score = 90 /\ ret.g.grade = "A+"

\* C10: on a history of fewer than 22 rows the template marks the SMA200-trending-up
\* criterion unavailable (not a boolean), leaves it out of the denominator and
\* returns a total below 8.
C10_ShortHistory ==
    /\ TemplateRan /\ Len(hist) < 22 =>
        /\ ret.tt.criteria["200sma_trending_up"] = "None"
        /\ ret.tt.total < 8
    /\ AnalyzeReturned /\ Len(hist) < 22 => ret.r.trend_score[2] < 8

\* the benchmark fetch raised or returned no rows
Unavailable(spy) == ~spy.ok \/ Len(spy.close) = 0

\* C11: when the benchmark fetch raises or returns an empty series,
\* calculate_relative_strength returns exactly (0, 0, 0, 'Unable to calculate'), the
\* criterion 'outperforming_market' is not passed, and analyze on a non-empty history
\* still returns a fully populated record, neither None nor an exception.
C11_BenchmarkUnavailable ==
    /\ ret.op = "calculate_relative_strength" /\ Unavailable(spy_calls[1]) =>
        /\ ret.rs.rs_advantage = [nan |-> FALSE, num |-> 0, den |-> 1]
        /\ ret.rs.stock_return = [nan |-> FALSE, num |-> 0, den |-> 1]
        /\ ret.rs.spy_return = [nan |-> FALSE, num |-> 0, den |-> 1]
        /\ ret.rs.rating = "Unable to calculate"
    /\ TemplateRan /\ Unavailable(spy_calls[1]) =>
        ret.tt.criteria["outperforming_market"] = "False"
    /\ ret.op = "analyze" /\ Len(hist) > 0 /\ Len(spy_calls) = 2 =>
        /\ Unavailable(spy_calls[1]) \/ Unavailable(spy_calls[2]) =>
               ~ret.none /\ ~ret.raised /\ Populated(ret.r)
        /\ Unavailable(spy_calls[1]) =>
               /\ ret.r.rs_advantage = [nan |-> FALSE, num |-> 0, den |-> 1]
               /\ ret.r.stock_return = [nan |-> FALSE, num |-> 0, den |-> 1]
               /\ ret.r.spy_return = [nan |-> FALSE, num |-> 0, den |-> 1]
               /\ ret.r.rs_rating = "Unable to calculate"
        /\ Unavailable(spy_calls[2]) =>
               ret.r.criteria["outperforming_market"] = "False"

\* a rising 160-row history analysed while the first benchmark fetch returns an empty
\* series and the second one raises
C11_Witness ==
    /\ AnalyzeReturned
    /\ Len(hist) = 160
    /\ spy_calls[1].ok /\ Len(spy_calls[1].close) = 0
    /\ ~spy_calls[2].ok
    /\ ret.r.rs_rating = "Unable to calculate"
    /\ ret.r.criteria["outperforming_market"] = "False"
    /\ ret.r.criteria["price_above_150sma"] = "True"

\* the entries of the history-call log whose fetch gave rows, in call order
RECURSIVE Fetched(_)
Fetched(log) ==
    IF log = <<>> THEN <<>>
    ELSE IF Head(log).answer.ok /\ Len(Head(log).answer.rows) > 0
    THEN <<Head(log)>> \o Fetched(Tail(log))
    ELSE Fetched(Tail(log))

\* the record a new screener for the k-th fetched symbol returns, given only that
\* symbol's series, the two benchmark answers of its analysis and the balance
OwnRecord(k) ==
    analyze(Fetched(calls.history)[k].symbol, account_balance, "none", <<>>, NoPrice,
            Fetched(calls.history)[k].answer,
            calls.benchmark[2 * k - 1], calls.benchmark[2 * k]).out.r

BatchOrder ==
    /\ loop_i <= Len(symbols)
    /\ Len(calls.history) = loop_i
    /\ \A k \in 1..loop_i : calls.history[k].symbol = symbols[k]
    /\ ret.op = "analyze" => ~ret.raised
    /\ ret.op = "complete" => loop_i = Len(symbols)

BatchRecords ==
    /\ Len(results) = Len(Fetched(calls.history))
    /\ \A k \in 1..Len(results) : results[k].symbol = Fetched(calls.history)[k].symbol
    /\ ret.op = "analyze" /\ ~ret.none => results[Len(results)] = OwnRecord(Len(results))
    /\ ret.op = "analyze" /\ ret.none =>
           LET last == calls.history[loop_i].answer
           IN ~last.ok \/ Len(last.rows) = 0

\* a pass appends at most one record and leaves the collected ones as they are
BatchAppendOnly ==
    \/ results' = results
    \/ Len(results') = Len(results) + 1 /\ SubSeq(results', 1, Len(results)) = results

\* C12: in a batch run each symbol is analysed exactly once, in input order, and the
\* loop ends; a symbol whose history fetch fails or is empty adds no record and does
\* not stop the loop; the results hold exactly one record per symbol whose fetch gave
\* rows, each one the record that symbol's own series, the benchmark and the balance
\* determine.
C12_Batch ==
    [](BatchOrder /\ BatchRecords) /\ [][BatchAppendOnly]_vars /\ <>(ret.op = "complete")

\* a finished run over three symbols whose second fetch raised
C12_Witness ==
    /\ ret.op = "complete"
    /\ Len(symbols) = 3
    /\ ~calls.history[2].answer.ok
    /\ Len(results) = 2
    /\ results[1].symbol = symbols[1] /\ results[2].symbol = symbols[3]
    /\ results[1].score # results[2].score

\* C13: during a batch run the benchmark history is fetched once and the same series
\* serves every analysis; the provider is called once per security plus once for the
\* benchmark.
C13_BenchmarkOnce ==
    ret.op = "complete" =>
        /\ Len(calls.history) = Len(symbols)
        /\ Len(results) > 0 => Len(calls.benchmark) = 1
        /\ \A j, k \in 1..Len(calls.benchmark) : calls.benchmark[j] = calls.benchmark[k]

\* what analyze returns on a new object given the same answers
FreshRun(answer, spy) ==
    analyze(symbol, account_balance, "none", <<>>, NoPrice, answer, spy[1], spy[2])

\* the two calls got the same history answer and, where the benchmark was fetched,
\* the same benchmark answers
SameInputs ==
    /\ ret.answer = ret.first.answer
    /\ ret.first.none \/ ret.spy = ret.first.spy

\* C14: analyze is a function of the security series, the benchmark series and the
\* account balance: a second call on the same object returns what a call on a new
\* object returns for the same answers, whatever the first call was given, and two
\* calls given identical answers return identical results.
C14_Deterministic ==
    ret.op = "analyze again" =>
        /\ ~ret.raised
        /\ ret.none = FreshRun(ret.answer, ret.spy).none
        /\ ret.r = FreshRun(ret.answer, ret.spy).out.r
        /\ SameInputs => ret.none = ret.first.none /\ ret.r = ret.first.r

\* a second call on a 22-row falling series after a first call on a longer series with
\* another last close and another benchmark
C14_Witness ==
    /\ ret.op = "analyze again"
    /\ ~ret.none /\ ~ret.first.none
    /\ Len(hist) = 22 /\ Len(ret.first.answer.rows) = MaxLen
    /\ ret.r.current_price # ret.first.r.current_price
    /\ ret.spy # ret.first.spy
    /\ ret.r.score # ret.first.r.score

\* the three detectors on the object's history
CupFires == detect_cup_with_handle(hist, frame).detected
FlatFires == detect_flat_base(hist, frame).detected
VcpFires == detect_vcp_pattern(hist, frame).detected

\* highest high of the trailing k rows of the object's history
TrailingHigh(k) == MaxHigh(hist, TailFrom(Len(hist), k), Len(hist))

\* the pattern and pivot the priority order asks for, given which detectors fire
Priority(cup, flat, vcp, pattern, buy_point) ==
    /\ cup => pattern = "Cup-with-Handle" /\ buy_point = TrailingHigh(15)
    /\ ~cup /\ flat => pattern = "Flat Base" /\ buy_point = TrailingHigh(50)
    /\ ~cup /\ ~flat /\ vcp => pattern = "VCP" /\ buy_point = TrailingHigh(10)
    /\ ~cup /\ ~flat /\ ~vcp =>
           pattern = "Recent Swing High" /\ buy_point = TrailingHigh(20)

\* C15: the pattern is chosen by fixed priority however many detectors fire:
\* Cup-with-Handle (pivot = handle high), else Flat Base (pivot = window high), else
\* VCP (pivot = highest high of the trailing 10 rows), else Recent Swing High (pivot =
\* highest high of the trailing 20 rows); buy_point is that pivot and pattern names
\* that branch.
C15_PatternPriority ==
    /\ LevelsReturned =>
           Priority(CupFires, FlatFires, VcpFires, ret.levels.pattern,
                    ret.levels.buy_point)
    /\ AnalyzeReturned =>
           Priority(CupFires, FlatFires, VcpFires, ret.r.pattern, ret.r.buy_point)

\* a plan on a history where the cup and the flat-base detector both fire
C15_Witness ==
    /\ LevelsReturned
    /\ CupFires /\ FlatFires
    /\ ret.levels.pattern = "Cup-with-Handle"
    /\ ret.levels.buy_point # detect_flat_base(hist, frame).pivot

\* pivot >= recentLow10, stop below the pivot, risk positive and at most 7% of it
RiskBounded(buy_point, stop_loss, risk_per_share) ==
    /\ buy_point >= RecentLow10
    /\ stop_loss < buy_point
    /\ risk_per_share > 0
    /\ risk_per_share * 100 <= 7 * buy_point

\* C16: on every non-empty series, in each of the four pattern branches, the pivot is
\* at least the minimum low of the trailing 10 rows; so every plan and every record
\* returned by analyze has stop_loss < buy_point and 0 < risk_per_share <= 7% of
\* buy_point.
C16_RiskBounds ==
    /\ LevelsReturned =>
           RiskBounded(ret.levels.buy_point, ret.levels.stop_loss,
                       ret.levels.risk_per_share)
    /\ AnalyzeReturned =>
           RiskBounded(ret.r.buy_point, ret.r.stop_loss, ret.r.buy_point - ret.r.stop_loss)

\* a cup-with-handle record whose recent low lies more than 7% below the pivot, so the
\* percentage stop is the one that caps the risk
C16_Witness ==
    /\ AnalyzeReturned
    /\ ret.r.pattern = "Cup-with-Handle"
    /\ RecentLow10 * 99 < ret.r.buy_point * 93
    /\ (ret.r.buy_point - ret.r.stop_loss) * 100 = 7 * ret.r.buy_point

\* C17: in every record returned by analyze, criteria['outperforming_market'] holds
\* iff the reported rs_advantage is greater than 0, also when the benchmark provider's
\* answer changes or fails between the two relative-strength computations of one call.
C17_RSAgree ==
    AnalyzeReturned =>
        (ret.r.criteria["outperforming_market"] = "True"
            <=> Gt(ret.r.rs_advantage, [nan |-> FALSE, num |-> 0, den |-> 1]))

====
